---- MODULE Spec2Model ----
(***************************************************************************)
(* Announcements router of the High School Management System API          *)
(* (src/src/backend/routers/announcements.py).                             *)
(*                                                                         *)
(* Strings that the code compares, parses or formats (dates, ObjectId     *)
(* hex strings) are sequences of character code points, so that string    *)
(* comparison, strptime/strftime and ObjectId()/str() are computed and    *)
(* not assumed.  Messages and user names are only copied and looked up,   *)
(* they are TLA+ strings.                                                  *)
(***************************************************************************)
EXTENDS Integers, Sequences, FiniteSets, TLC

\* Number of ObjectIds the store hands out (one per successful insert).
MaxIds == 2

VARIABLES announcements_collection, next_oid, clock, req, resp, inflight

vars == <<announcements_collection, next_oid, clock, req, resp, inflight>>

----------------------------------------------------------------------------
\* Characters and strings

Dash == 45

Digit(n) == 48 + n

IsDigit(c) == c \in 48..57

DigitVal(c) == c - 48

\* Python str comparison a <= b: by code point, a proper prefix is smaller.
RECURSIVE StrLeq(_, _)
StrLeq(a, b) ==
    IF Len(a) = 0 THEN TRUE
    ELSE IF Len(b) = 0 THEN FALSE
    ELSE IF Head(a) < Head(b) THEN TRUE
    ELSE IF Head(a) > Head(b) THEN FALSE
    ELSE StrLeq(Tail(a), Tail(b))

\* Optional[str] = None.  The code only tests it for truthiness
\* (`if start_date`, `not start_date`), where None and "" agree, and the
\* Field pattern admits no empty string.
None == << >>

Truthy(s) == Len(s) > 0

----------------------------------------------------------------------------
\* Dates: "%Y-%m-%d" formatting and parsing, datetime comparison

Pad2(n) == <<Digit((n \div 10) % 10), Digit(n % 10)>>

Pad4(n) == <<Digit((n \div 1000) % 10), Digit((n \div 100) % 10)>> \o Pad2(n)

FormatYMD(y, m, d) == Pad4(y) \o <<Dash>> \o Pad2(m) \o <<Dash>> \o Pad2(d)

\* datetime.strftime("%Y-%m-%d")
strftime(dt) == FormatYMD(dt.year, dt.month, dt.day)

\* Field(pattern=r'^\d{4}-\d{2}-\d{2}$')
DatePattern(s) ==
    /\ Len(s) = 10
    /\ \A i \in {1, 2, 3, 4, 6, 7, 9, 10} : IsDigit(s[i])
    /\ s[5] = Dash
    /\ s[8] = Dash

IsLeap(y) == (y % 4 = 0 /\ y % 100 # 0) \/ y % 400 = 0

DaysInMonth(y, m) ==
    IF m = 2 THEN (IF IsLeap(y) THEN 29 ELSE 28)
    ELSE IF m \in {4, 6, 9, 11} THEN 30
    ELSE 31

ValueError == [ok |-> FALSE, year |-> 0, month |-> 0, day |-> 0]

\* datetime.strptime(s, "%Y-%m-%d") on a string the Field pattern admits:
\* the parsed datetime, or ValueError for year 0, a month outside 1..12 or
\* a day the month does not have.
strptime(s) ==
    IF ~DatePattern(s) THEN ValueError
    ELSE LET y == DigitVal(s[1]) * 1000 + DigitVal(s[2]) * 100
                    + DigitVal(s[3]) * 10 + DigitVal(s[4])
             m == DigitVal(s[6]) * 10 + DigitVal(s[7])
             d == DigitVal(s[9]) * 10 + DigitVal(s[10])
         IN  IF y >= 1 /\ m \in 1..12 /\ d >= 1 /\ d <= DaysInMonth(y, m)
             THEN [ok |-> TRUE, year |-> y, month |-> m, day |-> d]
             ELSE ValueError

RECURSIVE DaysBeforeMonth(_, _)
DaysBeforeMonth(y, m) ==
    IF m <= 1 THEN 0 ELSE DaysBeforeMonth(y, m - 1) + DaysInMonth(y, m - 1)

\* datetime.toordinal(): the proleptic Gregorian day number; datetime
\* comparison orders midnight datetimes by it.
toordinal(dt) ==
    LET y == dt.year - 1
    IN  y * 365 + (y \div 4) - (y \div 100) + (y \div 400)
        + DaysBeforeMonth(dt.year, dt.month) + dt.day

DatetimeGt(a, b) == toordinal(a) > toordinal(b)

----------------------------------------------------------------------------
\* ObjectId: a 12-byte key, rendered as 24 lower-case hex characters

OidHexLen == 24

HexChar(v) == IF v < 10 THEN 48 + v ELSE 87 + v

IsHexChar(c) == c \in (48..57) \cup (97..102) \cup (65..70)

HexVal(c) == IF c \in 48..57 THEN c - 48
             ELSE IF c \in 97..102 THEN c - 87
             ELSE c - 55

\* The hex digit of n at position k, counted from the least significant
RECURSIVE HexDigitAt(_, _)
HexDigitAt(n, k) ==
    IF n = 0 THEN 0
    ELSE IF k = 0 THEN n % 16
    ELSE HexDigitAt(n \div 16, k - 1)

ToHex(n, width) == [i \in 1..width |-> HexChar(HexDigitAt(n, width - i))]

\* The value of the first k hex characters of s
RECURSIVE FromHex(_, _)
FromHex(s, k) ==
    IF k = 0 THEN 0
    ELSE FromHex(s, k - 1) * 16 + HexVal(s[k])

\* str(ObjectId)
ObjectIdStr(oid) == ToHex(oid, OidHexLen)

InvalidId == [ok |-> FALSE, value |-> 0]

\* ObjectId that accepts any string
ObjectId_unchecked(s) == [ok |-> TRUE, value |-> FromHex(s, Len(s))]

\* ObjectId(announcement_id): InvalidId unless 24 hex characters
ObjectId(s) ==
    IF Len(s) = OidHexLen /\ \A i \in 1..Len(s) : IsHexChar(s[i])
    THEN [ok |-> TRUE, value |-> FromHex(s, Len(s))]
    ELSE InvalidId

----------------------------------------------------------------------------
\* Collaborators: the teacher directory and the announcement store

teachers_collection == {[_id |-> "ms.adams"], [_id |-> "mr.baker"]}

\* teachers_collection.find_one({"_id": name}), as a set (empty = None)
find_teacher(name) == {t \in teachers_collection : t._id = name}

\* announcements_collection.find_one({"_id": oid}), as a set (empty = None)
find_one(coll, oid) == {a \in coll : a._id = oid}

\* find_gte with "$gt" in place of "$gte"
find_gt(coll, current_date) ==
    {a \in coll : ~StrLeq(a.expiration_date, current_date)}

\* announcements_collection.find({"expiration_date": {"$gte": current_date}}):
\* the store compares the two strings
find_gte(coll, current_date) ==
    {a \in coll : StrLeq(current_date, a.expiration_date)}

\* insert_one that loses the start date
insert_one_without_start(coll, last_oid, announcement) ==
    LET oid == last_oid + 1
    IN  [coll |-> coll \cup {[_id |-> oid,
                              message |-> announcement.message,
                              start_date |-> None,
                              expiration_date |-> announcement.expiration_date,
                              created_by |-> announcement.created_by,
                              created_at |-> announcement.created_at]},
         inserted_id |-> oid]

\* announcements_collection.insert_one(announcement): the store assigns the
\* next unused ObjectId
insert_one(coll, last_oid, announcement) ==
    LET oid == last_oid + 1
    IN  [coll |-> coll \cup {[_id |-> oid,
                              message |-> announcement.message,
                              start_date |-> announcement.start_date,
                              expiration_date |-> announcement.expiration_date,
                              created_by |-> announcement.created_by,
                              created_at |-> announcement.created_at]},
         inserted_id |-> oid]

\* update_one that ignores its filter (update_many({}, ...))
update_every(coll, oid, update_data) ==
    {[a EXCEPT !.message = update_data.message,
               !.start_date = update_data.start_date,
               !.expiration_date = update_data.expiration_date] : a \in coll}

\* announcements_collection.update_one({"_id": oid}, {"$set": update_data}):
\* no upsert, a missing document is left missing
update_one(coll, oid, update_data) ==
    {IF a._id = oid
     THEN [a EXCEPT !.message = update_data.message,
                    !.start_date = update_data.start_date,
                    !.expiration_date = update_data.expiration_date]
     ELSE a : a \in coll}

\* delete_one that reports a deletion whether or not a document matched
delete_one_always_counted(coll, oid) ==
    [coll |-> coll \ find_one(coll, oid), deleted_count |-> 1]

\* announcements_collection.delete_one({"_id": oid})
delete_one(coll, oid) ==
    [coll |-> coll \ find_one(coll, oid),
     deleted_count |-> Cardinality(find_one(coll, oid))]

\* announcement["_id"] = str(announcement["_id"])
Serialize(a) == [a EXCEPT !._id = ObjectIdStr(a._id)]

\* list(cursor) of an unsorted find: the store's natural (insertion) order
RECURSIVE NaturalOrder(_)
NaturalOrder(S) ==
    IF S = {} THEN << >>
    ELSE LET a == CHOOSE x \in S : \A y \in S : x._id <= y._id
         IN  <<a>> \o NaturalOrder(S \ {a})

\* list(cursor.sort("created_at", -1))
RECURSIVE SortCreatedAtDesc(_)
SortCreatedAtDesc(S) ==
    IF S = {} THEN << >>
    ELSE LET a == CHOOSE x \in S : \A y \in S :
                     \/ x.created_at > y.created_at
                     \/ (x.created_at = y.created_at /\ x._id <= y._id)
         IN  <<a>> \o SortCreatedAtDesc(S \ {a})

----------------------------------------------------------------------------
\* Responses

NoError == [status |-> 0, detail |-> ""]

HTTPException(status_code, detail) == [status |-> status_code, detail |-> detail]

\* A response: the status code, the error detail or confirmation message,
\* and the announcements returned (one for create and update).
Response(status_code, detail, body) ==
    [status |-> status_code, detail |-> detail, body |-> body]

Fail(exc) == Response(exc.status, exc.detail, << >>)

----------------------------------------------------------------------------
\* Dependency and helper

\* A request without the X-User-Name header
Missing == "<no X-User-Name header>"

\* verify_teacher as a dependency: Header(...) makes the header required, so
\* a request without it is answered 422 by the framework and verify_teacher
\* is not called.
verify_teacher(x_user_name) ==
    IF x_user_name = Missing
    THEN HTTPException(422, "Field required")
    ELSE IF find_teacher(x_user_name) = {}
    THEN HTTPException(401, "Unauthorized")
    ELSE NoError

\* validate_dates without the ordering check
validate_dates_format_only(expiration_date, start_date) ==
    LET expiration_datetime == strptime(expiration_date)
        start_datetime == strptime(start_date)
        BadFormat == HTTPException(400, "Invalid date format. Use YYYY-MM-DD")
    IN  IF ~expiration_datetime.ok THEN BadFormat
        ELSE IF ~Truthy(start_date) THEN NoError
        ELSE IF ~start_datetime.ok THEN BadFormat
        ELSE NoError

\* validate_dates that parses the expiration date only
validate_dates_expiration_only(expiration_date, start_date) ==
    IF ~strptime(expiration_date).ok
    THEN HTTPException(400, "Invalid date format. Use YYYY-MM-DD")
    ELSE NoError

validate_dates(expiration_date, start_date) ==
    LET expiration_datetime == strptime(expiration_date)
        start_datetime == strptime(start_date)
        BadFormat == HTTPException(400, "Invalid date format. Use YYYY-MM-DD")
    IN  IF ~expiration_datetime.ok THEN BadFormat
        ELSE IF ~Truthy(start_date) THEN NoError
        ELSE IF ~start_datetime.ok THEN BadFormat
        ELSE IF DatetimeGt(start_datetime, expiration_datetime)
        THEN HTTPException(400, "Start date must be before expiration date")
        ELSE NoError

----------------------------------------------------------------------------
\* Handlers.  Each returns the store after the call and the response.

\* GET /announcements/active
get_active_announcements(coll, now) ==
    LET current_date == strftime(now)
        announcements == find_gte(coll, current_date)
        active_announcements ==
            {a \in announcements :
                ~Truthy(a.start_date) \/ StrLeq(a.start_date, current_date)}
        listed == NaturalOrder(active_announcements)
    IN  Response(200, "", [i \in 1..Len(listed) |-> Serialize(listed[i])])

\* GET /announcements/all
get_all_announcements(coll, x_user_name) ==
    LET auth == verify_teacher(x_user_name)
        announcements == SortCreatedAtDesc(coll)
    IN  IF auth # NoError THEN Fail(auth)
        ELSE Response(200, "",
                 [i \in 1..Len(announcements) |-> Serialize(announcements[i])])

\* POST /announcements/
create_announcement(coll, last_oid, now, announcement_data, x_user_name) ==
    LET auth == verify_teacher(x_user_name)
        dates == validate_dates(announcement_data.expiration_date,
                                announcement_data.start_date)
        announcement == [message |-> announcement_data.message,
                         start_date |-> announcement_data.start_date,
                         expiration_date |-> announcement_data.expiration_date,
                         created_by |-> x_user_name,
                         created_at |-> now]
        result == insert_one(coll, last_oid, announcement)
        NoInsert(r) == [coll |-> coll, last_oid |-> last_oid, resp |-> r]
    IN  IF auth # NoError THEN NoInsert(Fail(auth))
        ELSE IF dates # NoError THEN NoInsert(Fail(dates))
        ELSE [coll |-> result.coll,
              last_oid |-> result.inserted_id,
              resp |-> Response(200, "",
                  <<[_id |-> ObjectIdStr(result.inserted_id),
                     message |-> announcement.message,
                     start_date |-> announcement.start_date,
                     expiration_date |-> announcement.expiration_date,
                     created_by |-> announcement.created_by,
                     created_at |-> announcement.created_at]>>)]

\* update_announcement up to the existence check (lines 121-136): the
\* response that ends the request there, or NoError
update_checks(coll, announcement_id, announcement_data, x_user_name) ==
    LET auth == verify_teacher(x_user_name)
        dates == validate_dates(announcement_data.expiration_date,
                                announcement_data.start_date)
        obj_id == ObjectId(announcement_id)
    IN  IF auth # NoError THEN auth
        ELSE IF dates # NoError THEN dates
        ELSE IF ~obj_id.ok THEN HTTPException(400, "Invalid announcement ID")
        ELSE IF find_one(coll, obj_id.value) = {}
        THEN HTTPException(404, "Announcement not found")
        ELSE NoError

update_data_of(announcement_data) ==
    [message |-> announcement_data.message,
     start_date |-> announcement_data.start_date,
     expiration_date |-> announcement_data.expiration_date]

\* update_announcement from the re-read on (lines 149-152): subscripting
\* None raises TypeError, which no handler catches (500)
update_return(coll, oid) ==
    LET updated == find_one(coll, oid)
    IN  IF updated = {}
        THEN Response(500, "Internal Server Error", << >>)
        ELSE Response(200, "", <<Serialize(CHOOSE a \in updated : TRUE)>>)

\* PUT /announcements/{announcement_id}, run without interruption
update_announcement(coll, announcement_id, announcement_data, x_user_name) ==
    LET checks == update_checks(coll, announcement_id, announcement_data,
                                x_user_name)
        oid == ObjectId(announcement_id).value
        written == update_one(coll, oid, update_data_of(announcement_data))
    IN  IF checks # NoError THEN [coll |-> coll, resp |-> Fail(checks)]
        ELSE [coll |-> written, resp |-> update_return(written, oid)]

\* delete_announcement that deletes before it looks at the caller
delete_announcement_then_verify(coll, announcement_id, x_user_name) ==
    LET auth == verify_teacher(x_user_name)
        obj_id == ObjectId(announcement_id)
        result == delete_one(coll, obj_id.value)
    IN  IF ~obj_id.ok
        THEN [coll |-> coll,
              resp |-> Fail(HTTPException(400, "Invalid announcement ID"))]
        ELSE IF auth # NoError THEN [coll |-> result.coll, resp |-> Fail(auth)]
        ELSE IF result.deleted_count = 0
        THEN [coll |-> result.coll,
              resp |-> Fail(HTTPException(404, "Announcement not found"))]
        ELSE [coll |-> result.coll,
              resp |-> Response(200, "Announcement deleted successfully", << >>)]

\* DELETE /announcements/{announcement_id}
delete_announcement(coll, announcement_id, x_user_name) ==
    LET auth == verify_teacher(x_user_name)
        obj_id == ObjectId(announcement_id)
        result == delete_one(coll, obj_id.value)
    IN  IF auth # NoError THEN [coll |-> coll, resp |-> Fail(auth)]
        ELSE IF ~obj_id.ok
        THEN [coll |-> coll,
              resp |-> Fail(HTTPException(400, "Invalid announcement ID"))]
        ELSE IF result.deleted_count = 0
        THEN [coll |-> result.coll,
              resp |-> Fail(HTTPException(404, "Announcement not found"))]
        ELSE [coll |-> result.coll,
              resp |-> Response(200, "Announcement deleted successfully", << >>)]

----------------------------------------------------------------------------
\* Request inputs

Headers == {Missing, "mallory", "ms.adams", "mr.baker"}

\* Request bodies that the AnnouncementCreate / AnnouncementUpdate models
\* admit: a window without start, a window with start, a reversed window,
\* and a start on a day the month does not have.
Bodies ==
    {[message |-> "Exam Friday", start_date |-> None,
      expiration_date |-> FormatYMD(2030, 1, 31)],
     [message |-> "Bus strike", start_date |-> FormatYMD(2030, 1, 31),
      expiration_date |-> FormatYMD(2030, 2, 1)],
     [message |-> "Exam Friday", start_date |-> FormatYMD(2030, 2, 1),
      expiration_date |-> FormatYMD(2030, 1, 31)],
     [message |-> "Bus strike", start_date |-> FormatYMD(2030, 2, 30),
      expiration_date |-> FormatYMD(2030, 2, 1)]}

\* Path parameters: the rendering of every ObjectId the store can hand out,
\* and a string that is no ObjectId
IdStrings == {ObjectIdStr(n) : n \in 1..MaxIds} \cup {<<120, 121, 122>>}

\* Days the system clock can show to get_active_announcements
Today ==
    {[year |-> 2030, month |-> 1, day |-> 30],
     [year |-> 2030, month |-> 1, day |-> 31],
     [year |-> 2030, month |-> 2, day |-> 1],
     [year |-> 2030, month |-> 2, day |-> 2]}

NoBody == [message |-> "", start_date |-> None, expiration_date |-> None]

NoDay == [year |-> 0, month |-> 0, day |-> 0]

Request(op, x_user_name, announcement_id, announcement_data, now) ==
    [op |-> op, header |-> x_user_name, id |-> announcement_id,
     body |-> announcement_data, today |-> now]

Idle == [pc |-> "idle", header |-> Missing, obj_id |-> 0,
         update_data |-> NoBody, resp |-> Response(0, "", << >>)]

----------------------------------------------------------------------------
\* The state machine: one request handled to completion per step

Init ==
    /\ announcements_collection = {}
    /\ next_oid = 0
    /\ clock = 0
    /\ req = Request("none", Missing, << >>, NoBody, NoDay)
    /\ resp = Response(0, "", << >>)
    /\ inflight = Idle

GetActive ==
    \E now \in Today :
        /\ req' = Request("active", Missing, << >>, NoBody, now)
        /\ resp' = get_active_announcements(announcements_collection, now)
        /\ UNCHANGED <<announcements_collection, next_oid, clock, inflight>>

GetAll ==
    \E h \in Headers :
        /\ req' = Request("all", h, << >>, NoBody, NoDay)
        /\ resp' = get_all_announcements(announcements_collection, h)
        /\ UNCHANGED <<announcements_collection, next_oid, clock, inflight>>

Create ==
    \E h \in Headers, b \in Bodies :
        LET r == create_announcement(announcements_collection, next_oid,
                                     clock, b, h)
        IN  /\ r.last_oid <= MaxIds
            /\ req' = Request("create", h, << >>, b, NoDay)
            /\ resp' = r.resp
            /\ announcements_collection' = r.coll
            /\ next_oid' = r.last_oid
            /\ clock' = IF r.resp.status = 200 THEN clock + 1 ELSE clock
            /\ UNCHANGED inflight

Update ==
    \E h \in Headers, id \in IdStrings, b \in Bodies :
        LET r == update_announcement(announcements_collection, id, b, h)
        IN  /\ req' = Request("update", h, id, b, NoDay)
            /\ resp' = r.resp
            /\ announcements_collection' = r.coll
            /\ UNCHANGED <<next_oid, clock, inflight>>

Delete ==
    \E h \in Headers, id \in IdStrings :
        LET r == delete_announcement(announcements_collection, id, h)
        IN  /\ req' = Request("delete", h, id, NoBody, NoDay)
            /\ resp' = r.resp
            /\ announcements_collection' = r.coll
            /\ UNCHANGED <<next_oid, clock, inflight>>

Next == GetActive \/ GetAll \/ Create \/ Update \/ Delete

Spec == Init /\ [][Next]_vars

----------------------------------------------------------------------------
\* Concurrent requests.  One update request is followed store call by store
\* call (inflight); between its calls the requests of other clients run.
\* Only the store calls of other requests can affect the followed one, and
\* each of them makes at most one call that writes, so other requests are
\* taken as a whole.

TeacherNames == {t._id : t \in teachers_collection}

\* lines 121-136: dependency, validation, ObjectId, existence check
UpdateBegin ==
    \E h \in Headers, id \in IdStrings, b \in Bodies :
        LET checks == update_checks(announcements_collection, id, b, h)
        IN  /\ inflight.pc \in {"idle", "returned"}
            /\ inflight' =
                 IF checks # NoError
                 THEN [pc |-> "returned", header |-> h, obj_id |-> 0,
                       update_data |-> update_data_of(b),
                       resp |-> Fail(checks)]
                 ELSE [pc |-> "update_one", header |-> h,
                       obj_id |-> ObjectId(id).value,
                       update_data |-> update_data_of(b),
                       resp |-> Response(0, "", << >>)]
            /\ UNCHANGED <<announcements_collection, next_oid, clock, req, resp>>

\* lines 144-147
UpdateWrite ==
    /\ inflight.pc = "update_one"
    /\ announcements_collection' =
           update_one(announcements_collection, inflight.obj_id,
                      inflight.update_data)
    /\ inflight' = [inflight EXCEPT !.pc = "find_one"]
    /\ UNCHANGED <<next_oid, clock, req, resp>>

\* lines 149-152
UpdateReturn ==
    /\ inflight.pc = "find_one"
    /\ inflight' = [inflight EXCEPT
                        !.pc = "returned",
                        !.resp = update_return(announcements_collection,
                                               inflight.obj_id)]
    /\ UNCHANGED <<announcements_collection, next_oid, clock, req, resp>>

OtherCreate ==
    \E h \in TeacherNames, b \in Bodies :
        LET r == create_announcement(announcements_collection, next_oid,
                                     clock, b, h)
        IN  /\ r.last_oid <= MaxIds
            /\ announcements_collection' = r.coll
            /\ next_oid' = r.last_oid
            /\ clock' = IF r.resp.status = 200 THEN clock + 1 ELSE clock
            /\ UNCHANGED <<req, resp, inflight>>

OtherUpdate ==
    \E h \in TeacherNames, id \in IdStrings, b \in Bodies :
        /\ announcements_collection' =
               update_announcement(announcements_collection, id, b, h).coll
        /\ UNCHANGED <<next_oid, clock, req, resp, inflight>>

OtherDelete ==
    \E h \in TeacherNames, id \in IdStrings :
        /\ announcements_collection' =
               delete_announcement(announcements_collection, id, h).coll
        /\ UNCHANGED <<next_oid, clock, req, resp, inflight>>

NextConc ==
    \/ UpdateBegin \/ UpdateWrite \/ UpdateReturn
    \/ OtherCreate \/ OtherUpdate \/ OtherDelete

SpecConc == Init /\ [][NextConc]_vars

----------------------------------------------------------------------------
\* Properties

Mutating == {"create", "update", "delete"}

\* Calendar order of two date strings
OnOrBefore(a, b) == toordinal(strptime(a)) <= toordinal(strptime(b))

\* A window as the data model wants it: a real expiration day and no start
\* or a real start day on or before it
WellFormedWindow(a) ==
    /\ strptime(a.expiration_date).ok
    /\ \/ a.start_date = None
       \/ /\ strptime(a.start_date).ok
          /\ OnOrBefore(a.start_date, a.expiration_date)

\* start_date > expiration_date, as strings
StartAfterExpiration(b) ==
    /\ b.start_date # None
    /\ ~StrLeq(b.start_date, b.expiration_date)

Returned == {resp.body[i] : i \in 1..Len(resp.body)}

\* C1: on date D, 'list active announcements' returns a stored announcement
\* iff its expiration day is D or later and it has no start day or a start
\* day on or before D, and returns nothing that is not stored.
C1_ActiveIffInWindow ==
    req.op = "active" =>
        /\ \A a \in announcements_collection :
              Serialize(a) \in Returned <=>
                  /\ OnOrBefore(strftime(req.today), a.expiration_date)
                  /\ \/ a.start_date = None
                     \/ OnOrBefore(a.start_date, strftime(req.today))
        /\ \A r \in Returned :
              \E a \in announcements_collection : r = Serialize(a)

\* One announcement is listed on its expiration day while another one,
\* expired the day before, is not
C1_Witness ==
    /\ req.op = "active"
    /\ \E r \in Returned : r.expiration_date = strftime(req.today)
    /\ \E a \in announcements_collection : Serialize(a) \notin Returned

\* C2: a create, update or delete whose caller is absent or not in the
\* teacher directory is answered 401.
C2_UnrecognizedIsUnauthorized ==
    (req.op \in Mutating /\ req.header \notin TeacherNames)
        => resp.status = 401

\* C3 as stated: a create with start_date > expiration_date is answered
\* 400 whether the identity the caller gives is valid or not.
C3_ReversedAlwaysInvalidInput ==
    (req.op = "create" /\ StartAfterExpiration(req.body)
        /\ req.header # Missing)
        => resp.status = 400

\* C3: a create with start_date > expiration_date never succeeds and
\* stores nothing, and a recognized teacher is answered 400.
C3_ReversedRejected ==
    [][(req'.op = "create" /\ StartAfterExpiration(req'.body)) =>
          /\ announcements_collection' = announcements_collection
          /\ resp'.status # 200
          /\ req'.header \in TeacherNames => resp'.status = 400]_vars

C3_Witness ==
    /\ req.op = "create"
    /\ StartAfterExpiration(req.body)
    /\ strptime(req.body.start_date).ok
    /\ req.header \in TeacherNames
    /\ resp.status = 400

\* C4: an update or delete by a recognized teacher of a malformed
\* identifier is answered 400, whatever the store holds.
C4_MalformedIdInvalidInput ==
    (/\ req.op \in {"update", "delete"}
     /\ req.header \in TeacherNames
     /\ \/ Len(req.id) # OidHexLen
        \/ \E i \in 1..Len(req.id) : ~IsHexChar(req.id[i]))
        => resp.status = 400

C4_Witness ==
    /\ req.op = "delete"
    /\ req.header \in TeacherNames
    /\ Len(req.id) # OidHexLen
    /\ resp.status = 400
    /\ announcements_collection # {}

\* C5: an update with valid dates or a delete, by a recognized teacher, of a
\* well-formed identifier that has no record is answered 404; a delete that
\* directly follows a successful delete of the same identifier is
\* answered 404.
C5_AbsentIsNotFound ==
    [][/\ (/\ req'.op \in {"update", "delete"}
           /\ req'.header \in TeacherNames
           /\ Len(req'.id) = OidHexLen
           /\ \A a \in announcements_collection :
                  ObjectIdStr(a._id) # req'.id
           /\ req'.op = "update" => WellFormedWindow(req'.body))
          => resp'.status = 404
       /\ (/\ req.op = "delete" /\ resp.status = 200
           /\ req'.op = "delete" /\ req'.id = req.id
           /\ req'.header \in TeacherNames)
          => resp'.status = 404]_vars

\* A delete of an identifier that the store had handed out is answered 404
C5_Witness ==
    /\ req.op = "delete"
    /\ resp.status = 404
    /\ \E n \in 1..next_oid : ObjectIdStr(n) = req.id

\* C6: a 'list all' by the teacher whose create has just succeeded includes
\* a record with the identifier create returned and the message, start_date
\* and expiration_date submitted.
C6_CreateThenListAll ==
    [][(/\ req.op = "create" /\ resp.status = 200
        /\ req'.op = "all" /\ req'.header = req.header)
          => \E i \in 1..Len(resp'.body) :
                /\ resp'.body[i]._id = resp.body[1]._id
                /\ resp'.body[i].message = req.body.message
                /\ resp'.body[i].start_date = req.body.start_date
                /\ resp'.body[i].expiration_date = req.body.expiration_date]_vars

\* A teacher's list holds the announcement created last, by that teacher,
\* with a start date, next to an older one
C6_Witness ==
    /\ req.op = "all"
    /\ resp.status = 200
    /\ Len(resp.body) >= 2
    /\ resp.body[1].created_at = clock - 1
    /\ resp.body[1].created_by = req.header
    /\ resp.body[1].start_date # None

\* C7: a create, update or delete answered 401, 400 or 404 leaves the store
\* as it was.
C7_ErrorsLeaveStore ==
    [][(req'.op \in Mutating /\ resp'.status \in {400, 401, 404})
          => announcements_collection' = announcements_collection]_vars

C7_Witness ==
    /\ req.op = "delete"
    /\ resp.status = 401
    /\ \E a \in announcements_collection : ObjectIdStr(a._id) = req.id

\* C8: a successful update of X replaces message, start_date and
\* expiration_date of X by the submitted values and changes nothing else,
\* in X or in any other record.
C8_UpdateFrame ==
    [][(req'.op = "update" /\ resp'.status = 200) =>
          \E old \in announcements_collection :
              /\ ObjectIdStr(old._id) = req'.id
              /\ announcements_collection' =
                     (announcements_collection \ {old}) \cup
                         {[_id |-> old._id,
                           message |-> req'.body.message,
                           start_date |-> req'.body.start_date,
                           expiration_date |-> req'.body.expiration_date,
                           created_by |-> old.created_by,
                           created_at |-> old.created_at]}]_vars

\* An update by a teacher who is not the creator, next to another record
\* that holds other values
C8_Witness ==
    /\ req.op = "update"
    /\ resp.status = 200
    /\ \E a, b \in announcements_collection :
          /\ ObjectIdStr(a._id) = req.id
          /\ a.created_by # req.header
          /\ b._id # a._id
          /\ b.message # a.message

\* C9: every stored announcement has a real expiration day and no start or
\* a real start day on or before it.
C9_StoredWindowsWellFormed ==
    \A a \in announcements_collection : WellFormedWindow(a)

C9_Witness ==
    /\ req.op = "update"
    /\ resp.status = 200
    /\ \E a \in announcements_collection :
          ObjectIdStr(a._id) = req.id /\ a.start_date # None

\* C10: an update request that runs concurrently with deletes and updates of
\* the same identifier ends in a defined outcome, success or an answer of
\* its checks, and never in an unhandled failure because the record
\* disappeared between its existence check, its write and its re-read.
C10_UpdateEndsDefined ==
    inflight.pc = "returned" =>
        inflight.resp.status \in {200, 400, 401, 404, 422}

====
